---- MODULE Spec2Model ----
(***************************************************************************)
(* tinyUpload (src/main.go, first program text, lines 1-381): the file     *)
(* drop server.  The metadata store is the SQLite table `files`, the blob  *)
(* store is the directory tree data/uploads/<path>/<filename>.             *)
(*                                                                         *)
(* Every handler is cut at its accesses to the two shared stores: one      *)
(* action per SQL statement or file-system call, the local computation     *)
(* that precedes it included.  SQL statements are atomic.  Strings are     *)
(* sequences of tokens (a plain character or one percent-escape), so that  *)
(* url.QueryUnescape and url.QueryEscape are computed, not assumed.        *)
(***************************************************************************)
EXTENDS Integers, Sequences, FiniteSets, TLC

\* ------------------------------------------------------------------ bounds
MaxTime == 4      \* the clock runs up to MaxTime (days)
MaxRequests == 2  \* requests served in one run of the server

\* ------------------------------------------------------- program constants
RetentionDays == 3   \* datetime('now', '-3 days')

\* ----------------------------------------------------------- random names
\* line 342: const chars
chars == <<"0", "1", "2", "3", "4", "5", "6", "7", "8", "9",
           "a", "b", "c", "d", "e", "f", "g", "h", "i", "j", "k", "l", "m",
           "n", "o", "p", "q", "r", "s", "t", "u", "v", "w", "x", "y", "z",
           "A", "B", "C", "D", "E", "F", "G", "H", "I", "J", "K", "L", "M",
           "N", "O", "P", "Q", "R", "S", "T", "U", "V", "W", "X", "Y", "Z">>

\* a string one character short
generateRandomStringShort(length, draws) ==
    [i \in 1..(length - 1) |-> chars[draws[i] + 1]]

\* lines 341-349: draws[i] is the value rand.Int returns in the i-th pass of
\* the loop, a number of 0..len(chars)-1
generateRandomString(length, draws) ==
    [i \in 1..length |-> chars[draws[i] + 1]]

\* lines 351-353
generateRandomPath(draws) == generateRandomString(4, draws)

\* the draws of rand.Int the model follows: the least value, the greatest,
\* and two in between
DrawLow  == [i \in 1..8 |-> 0]
DrawHigh == [i \in 1..8 |-> Len(chars) - 1]
DrawC    == [i \in 1..8 |-> 12]
DrawD    == [i \in 1..8 |-> IF i = 8 THEN 39 ELSE 13]

\* ------------------------------------------------------------ input sets
Slots == {"r1", "r2"}                 \* concurrent request goroutines
\* results of generateRandomPath()
Paths == {generateRandomPath(DrawLow), generateRandomPath(DrawHigh)}
\* results of generateRandomString(8) at line 182
Codes == {generateRandomString(8, DrawD)}
\* the path and the delete code of the file stored before the restart
PersistedPath == generateRandomPath(DrawLow)
PersistedCode == generateRandomString(8, DrawC)
RawNames == {<<>>, <<"a">>, <<"+">>, <<"%zz">>}          \* c.Params("filename")
RouteNames == RawNames \ {<<>>}          \* /:path/:filename matches no empty segment
RawCodes == {<<>>, PersistedCode, <<"%zz">>} \cup Codes      \* c.Query("code")
DispositionNames == {<<>>, <<"a">>}   \* filename of Content-Disposition
Bodies == {<<>>, <<2, 2>>}            \* c.Body(): empty, or two bytes
FileNames == {<<"a">>, <<" ">>}       \* decoded names the inputs can produce

\* c.Get("Content-Type"): absent, or one of three declared types
ContentTypes == {"", "text/plain", "image/png", "application/json"}
\* decoded filenames with and without an extension
MimeNames == {<<"a">>, <<"a", ".txt">>, <<"a", ".png">>, <<"a", ".zz">>,
              <<"a", ".">>}
\* contents: binary, text, a PDF signature, text with a NUL, a newline, a
\* tab
MimeBodies == {<<2, 2>>, <<104, 105>>, <<37, 80, 68, 70, 45>>, <<104, 0>>,
               <<10>>, <<9>>}

NoFile == <<-1>>              \* os.IsNotExist: no file at that location
DecodeError == <<"error">>    \* url.QueryUnescape returned err != nil

\* ------------------------------------------------------------- url package
\* one token of url.QueryUnescape: '+' is a space, %20 is a space, a
\* malformed escape is an error, any other character is itself
UnescapeToken(t) ==
    IF t = "+" THEN <<" ">>
    ELSE IF t = "%20" THEN <<" ">>
    ELSE IF t = "%zz" THEN DecodeError
    ELSE <<t>>

RECURSIVE QueryUnescape(_)
QueryUnescape(s) ==
    IF s = <<>> THEN <<>>
    ELSE LET h == UnescapeToken(Head(s))
             r == QueryUnescape(Tail(s))
         IN  IF h = DecodeError \/ r = DecodeError THEN DecodeError
             ELSE h \o r

\* one character of url.QueryEscape: a space becomes '+', letters stay
EscapeChar(c) == IF c = " " THEN "+" ELSE c

RECURSIVE QueryEscape(_)
QueryEscape(s) ==
    IF s = <<>> THEN <<>> ELSE <<EscapeChar(Head(s))>> \o QueryEscape(Tail(s))

\* ------------------------------------------------------------------- state
VARIABLES
    now,      \* the clock read by datetime('now')
    db,       \* the rows of table files
    nextId,   \* the AUTOINCREMENT counter of files.id
    dirs,     \* the directories data/uploads/<path> that exist
    files,    \* data/uploads/<path>/<filename> -> content, or NoFile
    req,      \* per request goroutine: handler position and locals
    sweep,    \* the cleanup goroutine: position, open cursor
    out,      \* the response sent (or the cleanup result logged) by the last step
    served,   \* the number of requests accepted so far
    faulty,   \* may SQL statements and file-system calls fail in this run
    mime      \* the last classification made by MimeType, with its inputs

vars == <<now, db, nextId, dirs, files, req, sweep, out, served, faulty, mime>>

\* -------------------------------------------------------------- mime type
\* filepath.Ext: the suffix of the name from its last dot on; a name is a
\* sequence of tokens and an extension is a last token that starts with a
\* dot
ExtTokens == {".txt", ".png", ".zz", "."}

Ext(name) ==
    IF name # <<>> /\ name[Len(name)] \in ExtTokens THEN name[Len(name)] ELSE ""

\* mime.TypeByExtension: "" for an extension it does not know
TypeByExtension(ext) ==
    CASE ext = ".txt" -> "text/plain; charset=utf-8"
      [] ext = ".png" -> "image/png"
      [] OTHER -> ""

\* the bytes http.DetectContentType takes for binary data
BinaryByte(b) == b \in (0..8) \cup {11} \cup (14..26) \cup (28..31)

\* http.DetectContentType: a known signature ("%PDF-"), else binary data,
\* else text; it never returns ""
DetectContentType(body) ==
    IF Len(body) >= 5 /\ SubSeq(body, 1, 5) = <<37, 80, 68, 70, 45>>
    THEN "application/pdf"
    ELSE IF \E i \in 1..Len(body) : BinaryByte(body[i])
    THEN "application/octet-stream"
    ELSE "text/plain; charset=utf-8"

\* a classification that looks at the content before the extension
MimeTypeSniffFirst(declared, name, body) ==
    IF declared # "" THEN declared
    ELSE IF DetectContentType(body) # "" THEN DetectContentType(body)
    ELSE TypeByExtension(Ext(name))

\* lines 174-180: the Content-Type header, else the type of the filename's
\* extension, else the type sniffed from the content
MimeType(declared, name, body) ==
    IF declared # "" THEN declared
    ELSE IF TypeByExtension(Ext(name)) # "" THEN TypeByExtension(Ext(name))
    ELSE DetectContentType(body)

\* ---------------------------------------------------------- metadata store
\* INSERT INTO files (...) VALUES (?, ?, ?, ?, datetime('now'), ?, ?);
\* download_count takes its DEFAULT 0, id the next AUTOINCREMENT value
NewRow(id, path, filename, deleteCode, t, fileSize, mimeType) ==
    [id |-> id, path |-> path, filename |-> filename,
     encoded_filename |-> QueryEscape(filename), delete_code |-> deleteCode,
     upload_time |-> t, file_size |-> fileSize, mime_type |-> mimeType,
     download_count |-> 0]

\* the table created without its UNIQUE constraint
UniqueViolationOff(rows, path, enc) == FALSE

\* UNIQUE(path, encoded_filename): would inserting (path, enc) be refused
UniqueViolation(rows, path, enc) ==
    \E r \in rows : r.path = path /\ r.encoded_filename = enc

\* a SELECT without the condition on path
SelectByName(rows, path, enc) ==
    {r \in rows : r.encoded_filename = enc}

\* SELECT filename FROM files WHERE path = ? AND encoded_filename = ?
SelectByAddress(rows, path, enc) ==
    {r \in rows : r.path = path /\ r.encoded_filename = enc}

\* the SELECT of handleDelete without its delete_code condition
SelectForDeleteAnyCode(rows, path, enc, code) ==
    {r \in rows : r.path = path /\ r.encoded_filename = enc}

\* SELECT filename FROM files WHERE path = ? AND encoded_filename = ?
\*   AND delete_code = ?
SelectForDelete(rows, path, enc, code) ==
    {r \in rows : r.path = path /\ r.encoded_filename = enc /\ r.delete_code = code}

\* DELETE FROM files WHERE path = ? AND encoded_filename = ? AND delete_code = ?
DeleteRow(rows, path, enc, code) ==
    rows \ SelectForDelete(rows, path, enc, code)

\* an UPDATE that also sets file_size
IncrementAndResize(rows, path, enc) ==
    {IF r.path = path /\ r.encoded_filename = enc
        THEN [r EXCEPT !.download_count = @ + 1, !.file_size = 0]
        ELSE r : r \in rows}

\* the UPDATE counting down
DecrementDownloadCount(rows, path, enc) ==
    {IF r.path = path /\ r.encoded_filename = enc
        THEN [r EXCEPT !.download_count = @ - 1] ELSE r : r \in rows}

\* the UPDATE with its filename condition lost: every row of the path counts
IncrementDownloadCountOfPath(rows, path, enc) ==
    {IF r.path = path
        THEN [r EXCEPT !.download_count = @ + 1] ELSE r : r \in rows}

\* UPDATE files SET download_count = download_count + 1
\*   WHERE path = ? AND encoded_filename = ?
IncrementDownloadCount(rows, path, enc) ==
    {IF r.path = path /\ r.encoded_filename = enc
        THEN [r EXCEPT !.download_count = @ + 1] ELSE r : r \in rows}

\* upload_time < datetime('now', '-3 days')
Expired(r, t) == r.upload_time < t - RetentionDays

\* the SELECT of the cleanup without its WHERE clause
ListExpiredAll(rows, t) == rows

\* SELECT path, encoded_filename, filename FROM files WHERE upload_time < ...
ListExpired(rows, t) == {r \in rows : Expired(r, t)}

\* the grouped DELETE matching no row
DeleteExpiredNone(rows, t) == rows

\* the grouped DELETE with its comparison turned round
DeleteExpiredInverted(rows, t) == {r \in rows : Expired(r, t)}

\* DELETE FROM files WHERE upload_time < datetime('now', '-3 days')
DeleteExpired(rows, t) == {r \in rows : ~Expired(r, t)}

\* the cursor of rows.Next(): the selected rows in rowid order
RECURSIVE RowsInOrder(_)
RowsInOrder(rows) ==
    IF rows = {} THEN <<>>
    ELSE LET first == CHOOSE r \in rows : \A q \in rows : r.id <= q.id
         IN  <<first>> \o RowsInOrder(rows \ {first})

\* --------------------------------------------------------------- blob store
\* filepath.Join(s.uploadDir, path, filename)
FilePath(path, filename) == <<path, filename>>

Locations == {FilePath(p, n) : p \in Paths, n \in FileNames}

\* a directory that counts as empty whatever it holds
DirEmptyAlways(fs, path) == TRUE

\* os.Remove of a directory succeeds only when it exists and is empty
DirEmpty(fs, path) == \A n \in FileNames : fs[FilePath(path, n)] = NoFile

RemoveDir(ds, fs, path) ==
    IF path \in ds /\ DirEmpty(fs, path) THEN ds \ {path} ELSE ds

\* ------------------------------------------------------------ request slots
Idle == [pc |-> "idle", path |-> <<>>, name |-> <<>>, body |-> <<>>,
         code |-> <<>>, rid |-> 0, size |-> 0, conflict |-> FALSE, counted |-> FALSE]

NoResponse == [op |-> "none", status |-> 0, text |-> "", path |-> <<>>,
               name |-> <<>>, code |-> <<>>, bytes |-> <<>>, rid |-> 0, size |-> 0,
               conflict |-> FALSE, counted |-> FALSE, secret |-> <<>>,
               leftover |-> FALSE]

Response(op, status, text) == [NoResponse EXCEPT !.op = op, !.status = status, !.text = text]

SweepIdle == [pc |-> "idle", cursor |-> <<>>, listed |-> {}, failed |-> {}]

\* the cleanup goroutine holds an open SELECT cursor between its first and
\* its last rows.Next(); SQLite (one database file, rollback journal, the
\* default of sql.Open("sqlite3", "data/files.db")) commits no write of
\* another connection while a cursor is open on the file
CursorOpen == sweep.pc = "loop"

\* the results an SQL statement or a file-system call can have: err == nil,
\* and err != nil when the run admits infrastructure failures
Outcomes == IF faulty THEN BOOLEAN ELSE {TRUE}

\* a request is taken by the first goroutine slot that serves no request
Free(s) == req[s].pc = "idle" /\ (s = "r1" \/ req["r1"].pc # "idle")

\* the positions of handleDelete after its SELECT has matched a row
DeletePcs == {"d_remove", "d_delete", "d_rmdir"}

\* -------------------------------------------------------------------- Init
\* NewFileServer keeps what it finds: os.MkdirAll, sql.Open and CREATE TABLE
\* IF NOT EXISTS on data/.  The server starts on a data directory that holds
\* a file uploaded RetentionDays ago by an earlier run: its row, its blob,
\* its directory, and a delete code of that run.
\* no classification made yet
NoMime == [declared |-> "", name |-> <<>>, body |-> <<>>, type |-> ""]

Persisted ==
    NewRow(1, PersistedPath, <<"a">>, PersistedCode, 0, 1,
           MimeType("", <<"a">>, <<1>>))

Started ==
    /\ now = RetentionDays
    /\ db = {Persisted}
    /\ nextId = 2
    /\ dirs = {PersistedPath}
    /\ files = [l \in Locations |->
                  IF l = FilePath(PersistedPath, <<"a">>) THEN <<1>> ELSE NoFile]
    /\ req = [s \in Slots |-> Idle]
    /\ sweep = SweepIdle
    /\ out = NoResponse
    /\ served = 0
    /\ mime = NoMime

\* SQL statements and file-system calls can fail
Init == Started /\ faulty = TRUE

\* no SQL statement and no file-system call fails for a reason outside the
\* program
InitReliable == Started /\ faulty = FALSE

\* the server starts on a data directory that holds two files of the
\* earlier run, both uploaded RetentionDays ago; nobody holds the delete
\* code of the second
PersistedSecond ==
    NewRow(2, generateRandomPath(DrawHigh), <<"a">>,
           generateRandomString(8, DrawLow), 0, 1,
           MimeType("", <<"a">>, <<1>>))

InitTwoFiles ==
    /\ now = RetentionDays
    /\ db = {Persisted, PersistedSecond}
    /\ nextId = 3
    /\ dirs = {Persisted.path, PersistedSecond.path}
    /\ files = [l \in Locations |->
                  IF \E r \in {Persisted, PersistedSecond} :
                         l = FilePath(r.path, r.filename)
                  THEN <<1>> ELSE NoFile]
    /\ req = [s \in Slots |-> Idle]
    /\ sweep = SweepIdle
    /\ out = NoResponse
    /\ served = 0
    /\ faulty = TRUE
    /\ mime = NoMime

\* ------------------------------------------------------------ handleUpload
\* lines 134-167: the filename (request line, else Content-Disposition),
\* generateRandomPath, os.MkdirAll, and the empty-body check that follows it
U_Start(s) ==
    /\ Free(s)
    /\ served < MaxRequests
    /\ served' = served + 1
    /\ \E raw \in RawNames :
         LET dec == QueryUnescape(raw)
         IN  IF dec = DecodeError
             THEN /\ out' = Response("upload", 400, "Invalid filename")
                  /\ UNCHANGED <<dirs, req>>
             ELSE \E name \in IF dec = <<>> THEN DispositionNames ELSE {dec} :
                  IF name = <<>>
                  THEN /\ out' = Response("upload", 400, "No filename specified")
                       /\ UNCHANGED <<dirs, req>>
                  ELSE \/ /\ faulty
                          /\ out' = Response("upload", 500, "Failed to create directory")
                          /\ UNCHANGED <<dirs, req>>
                       \/ \E path \in Paths, body \in Bodies :
                          /\ dirs' = dirs \cup {path}
                          /\ IF Len(body) = 0
                             THEN /\ out' = [Response("upload", 400, "Empty file content")
                                                EXCEPT !.path = path, !.name = name]
                                  /\ UNCHANGED req
                             ELSE /\ req' = [req EXCEPT ![s] =
                                         [Idle EXCEPT !.pc = "u_write", !.path = path,
                                                      !.name = name, !.body = body]]
                                  /\ out' = NoResponse
    /\ UNCHANGED <<now, db, nextId, files, sweep, faulty, mime>>

\* lines 169-171: os.WriteFile(filePath, fileContent, 0644); it fails when
\* the directory is gone again
U_Write(s) ==
    /\ req[s].pc = "u_write"
    /\ IF req[s].path \in dirs
       THEN /\ files' = [files EXCEPT ![FilePath(req[s].path, req[s].name)] = req[s].body]
            /\ req' = [req EXCEPT ![s].pc = "u_insert"]
            /\ out' = NoResponse
       ELSE /\ out' = Response("upload", 500, "Failed to save file")
            /\ req' = [req EXCEPT ![s] = Idle]
            /\ UNCHANGED files
    /\ UNCHANGED <<now, db, nextId, dirs, sweep, served, faulty, mime>>

\* lines 173-189 and 194-220: the mime type (the uploads followed here
\* carry no Content-Type header), generateRandomString(8), the INSERT, and
\* on success the response that carries path, filename and deleteCode
U_Insert(s) ==
    /\ req[s].pc = "u_insert"
    /\ \E deleteCode \in Codes, storeOk \in Outcomes :
         LET path == req[s].path
             name == req[s].name
             dup  == UniqueViolation(db, path, QueryEscape(name))
         IN  IF storeOk /\ ~dup
             THEN /\ ~CursorOpen
                  /\ db' = db \cup {NewRow(nextId, path, name, deleteCode, now,
                                           Len(req[s].body),
                                           MimeType("", name, req[s].body))}
                  /\ nextId' = nextId + 1
                  /\ out' = [Response("upload", 200, "Upload successful!") EXCEPT
                                !.path = path, !.name = name, !.code = deleteCode,
                                !.rid = nextId, !.secret = deleteCode]
                  /\ req' = [req EXCEPT ![s] = Idle]
             ELSE /\ req' = [req EXCEPT ![s].pc = "u_rollback",
                                        ![s].conflict = storeOk /\ dup]
                  /\ out' = NoResponse
                  /\ UNCHANGED <<db, nextId>>
    /\ UNCHANGED <<now, dirs, files, sweep, served, faulty, mime>>

\* an os.Remove that leaves the file where it is and reports no error
RemoveBlobNever(fs, loc, removeOk) == fs

\* os.Remove(filePath): the file is gone unless the call fails
RemoveBlob(fs, loc, removeOk) ==
    IF removeOk THEN [fs EXCEPT ![loc] = NoFile] ELSE fs

\* lines 189-192: err != nil: os.Remove(filePath), whose result is ignored,
\* then status 500
\* a rollback that starts the upload again under a new path when the INSERT
\* met a uniqueness conflict
U_RollbackAndRetry(s) ==
    /\ req[s].pc = "u_rollback"
    /\ LET loc == FilePath(req[s].path, req[s].name)
       IN  \E removeOk \in IF files[loc] = NoFile THEN {TRUE} ELSE Outcomes :
             /\ files' = RemoveBlob(files, loc, removeOk)
             /\ IF req[s].conflict
                THEN \E path \in Paths :
                       /\ req' = [req EXCEPT ![s].pc = "u_write",
                                             ![s].path = path,
                                             ![s].conflict = FALSE]
                       /\ dirs' = dirs \cup {path}
                       /\ out' = NoResponse
                ELSE /\ out' = [Response("upload", 500,
                                         "Failed to save file information") EXCEPT
                                  !.path = req[s].path, !.name = req[s].name,
                                  !.conflict = req[s].conflict,
                                  !.leftover = ~removeOk]
                     /\ req' = [req EXCEPT ![s] = Idle]
                     /\ UNCHANGED dirs
    /\ UNCHANGED <<now, db, nextId, sweep, served, faulty, mime>>

U_Rollback(s) ==
    /\ req[s].pc = "u_rollback"
    /\ LET loc == FilePath(req[s].path, req[s].name)
       IN  \E removeOk \in IF files[loc] = NoFile THEN {TRUE} ELSE Outcomes :
             /\ files' = RemoveBlob(files, loc, removeOk)
             /\ out' = [Response("upload", 500, "Failed to save file information") EXCEPT
                           !.path = req[s].path, !.name = req[s].name,
                           !.conflict = req[s].conflict, !.leftover = ~removeOk]
    /\ req' = [req EXCEPT ![s] = Idle]
    /\ UNCHANGED <<now, db, nextId, dirs, sweep, served, faulty, mime>>

\* ---------------------------------------------------------- handleDownload
\* lines 224-239: decode and re-encode the requested name, SELECT filename
F_Start(s) ==
    /\ Free(s)
    /\ served < MaxRequests
    /\ served' = served + 1
    /\ \E path \in Paths, raw \in RouteNames :
         LET dec  == QueryUnescape(raw)
             rows == IF dec = DecodeError THEN {}
                     ELSE SelectByAddress(db, path, QueryEscape(dec))
         IN  IF rows = {}
             THEN /\ out' = [Response("fetch", 404, "File not found") EXCEPT
                                !.path = path,
                                !.name = IF dec = DecodeError THEN <<>> ELSE dec]
                  /\ UNCHANGED req
             ELSE \E r \in rows :
                  /\ req' = [req EXCEPT ![s] =
                         [Idle EXCEPT !.pc = "f_stat", !.path = path,
                                      !.name = r.filename, !.rid = r.id,
                                      !.size = r.file_size]]
                  /\ out' = NoResponse
    /\ UNCHANGED <<now, db, nextId, dirs, files, sweep, faulty, mime>>

\* lines 241-244: os.Stat(filePath)
F_Stat(s) ==
    /\ req[s].pc = "f_stat"
    /\ IF files[FilePath(req[s].path, req[s].name)] = NoFile
       THEN /\ out' = [Response("fetch", 404, "File not found") EXCEPT
                          !.path = req[s].path, !.name = req[s].name, !.rid = req[s].rid]
            /\ req' = [req EXCEPT ![s] = Idle]
       ELSE /\ req' = [req EXCEPT ![s].pc = "f_update"]
            /\ out' = NoResponse
    /\ UNCHANGED <<now, db, nextId, dirs, files, sweep, served, faulty, mime>>

\* an UPDATE whose error ends the request with status 500
F_UpdateOrFail(s) ==
    /\ req[s].pc = "f_update"
    /\ \E storeOk \in Outcomes :
         LET path == req[s].path
             enc  == QueryEscape(req[s].name)
         IN  IF storeOk
             THEN /\ ~CursorOpen
                  /\ db' = IncrementDownloadCount(db, path, enc)
                  /\ req' = [req EXCEPT ![s].pc = "f_send",
                                ![s].counted = SelectByAddress(db, path, enc) # {}]
                  /\ out' = NoResponse
             ELSE /\ req' = [req EXCEPT ![s] = Idle]
                  /\ out' = Response("fetch", 500, "Internal server error")
                  /\ UNCHANGED db
    /\ UNCHANGED <<now, nextId, dirs, files, sweep, served, faulty, mime>>

\* lines 246-250: the UPDATE of download_count; an error is only logged
F_Update(s) ==
    /\ req[s].pc = "f_update"
    /\ \E storeOk \in Outcomes :
         LET path == req[s].path
             enc  == QueryEscape(req[s].name)
         IN  IF storeOk
             THEN /\ ~CursorOpen
                  /\ db' = IncrementDownloadCount(db, path, enc)
                  /\ req' = [req EXCEPT ![s].pc = "f_send",
                                ![s].counted = SelectByAddress(db, path, enc) # {}]
             ELSE /\ req' = [req EXCEPT ![s].pc = "f_send"]
                  /\ UNCHANGED db
    /\ out' = NoResponse
    /\ UNCHANGED <<now, nextId, dirs, files, sweep, served, faulty, mime>>

\* line 252 and lines 71-74: c.SendFile(filePath); when the file is gone
\* SendFile returns an error and the ErrorHandler redirects to "/"
F_Send(s) ==
    /\ req[s].pc = "f_send"
    /\ LET content == files[FilePath(req[s].path, req[s].name)]
       IN  IF content = NoFile
           THEN out' = [Response("fetch", 302, "redirect /") EXCEPT
                           !.path = req[s].path, !.name = req[s].name,
                           !.rid = req[s].rid, !.counted = req[s].counted]
           ELSE out' = [Response("fetch", 200, "file") EXCEPT
                           !.path = req[s].path, !.name = req[s].name,
                           !.rid = req[s].rid, !.counted = req[s].counted,
                           !.size = req[s].size, !.bytes = content]
    /\ req' = [req EXCEPT ![s] = Idle]
    /\ UNCHANGED <<now, db, nextId, dirs, files, sweep, served, faulty, mime>>

\* ------------------------------------------------------------ handleDelete
\* a handleDelete that answers 404 where no row is at the address
DeleteAnswerRevealing(rows, path, raw, rawCode, storeOk) ==
    LET dec  == QueryUnescape(raw)
        code == QueryUnescape(rawCode)
    IN  IF dec = DecodeError
        THEN [Response("delete", 404, "File not found") EXCEPT !.path = path]
        ELSE IF code = DecodeError
        THEN [Response("delete", 400, "Invalid delete code") EXCEPT
                 !.path = path, !.name = dec, !.code = rawCode]
        ELSE IF ~storeOk
        THEN Response("delete", 500, "Internal server error")
        ELSE IF SelectByAddress(rows, path, QueryEscape(dec)) = {}
        THEN [Response("delete", 404, "File not found") EXCEPT
                 !.path = path, !.name = dec, !.code = code]
        ELSE IF SelectForDelete(rows, path, QueryEscape(dec), code) = {}
        THEN [Response("delete", 403, "Invalid delete code") EXCEPT
                 !.path = path, !.name = dec, !.code = code]
        ELSE NoResponse

\* lines 256-283: what handleDelete answers before it touches anything:
\* 404 for a name that does not decode, 400 for a code that does not decode,
\* 500 when the SELECT fails, 403 when the SELECT ... AND delete_code = ?
\* has no row; NoResponse when it has one and the handler goes on
DeleteAnswer(rows, path, raw, rawCode, storeOk) ==
    LET dec  == QueryUnescape(raw)
        code == QueryUnescape(rawCode)
    IN  IF dec = DecodeError
        THEN [Response("delete", 404, "File not found") EXCEPT !.path = path]
        ELSE IF code = DecodeError
        THEN [Response("delete", 400, "Invalid delete code") EXCEPT
                 !.path = path, !.name = dec, !.code = rawCode]
        ELSE IF ~storeOk
        THEN Response("delete", 500, "Internal server error")
        ELSE IF SelectForDelete(rows, path, QueryEscape(dec), code) = {}
        THEN [Response("delete", 403, "Invalid delete code") EXCEPT
                 !.path = path, !.name = dec, !.code = code]
        ELSE NoResponse

\* lines 256-283: decode name and code, SELECT ... AND delete_code = ?
D_Start(s) ==
    /\ Free(s)
    /\ served < MaxRequests
    /\ served' = served + 1
    /\ \E path \in Paths, raw \in RouteNames, rawCode \in RawCodes :
        \E storeOk \in IF DecodeError \in {QueryUnescape(raw), QueryUnescape(rawCode)}
                        THEN {TRUE} ELSE Outcomes :
         LET answer == DeleteAnswer(db, path, raw, rawCode, storeOk)
         IN  IF answer # NoResponse
             THEN /\ out' = answer
                  /\ UNCHANGED req
             ELSE \E r \in SelectForDelete(db, path, QueryEscape(QueryUnescape(raw)),
                                           QueryUnescape(rawCode)) :
                  /\ req' = [req EXCEPT ![s] =
                         [Idle EXCEPT !.pc = "d_remove", !.path = path,
                                      !.name = r.filename,
                                      !.code = QueryUnescape(rawCode), !.rid = r.id]]
                  /\ out' = NoResponse
    /\ UNCHANGED <<now, db, nextId, dirs, files, sweep, faulty, mime>>

\* lines 285-288: os.Remove(filePath); an error other than "not exist" is
\* logged and the handler goes on
D_Remove(s) ==
    /\ req[s].pc = "d_remove"
    /\ LET loc == FilePath(req[s].path, req[s].name)
       IN  \E removeOk \in IF files[loc] = NoFile THEN {TRUE} ELSE Outcomes :
             files' = IF removeOk THEN [files EXCEPT ![loc] = NoFile] ELSE files
    /\ req' = [req EXCEPT ![s].pc = "d_delete"]
    /\ out' = NoResponse
    /\ UNCHANGED <<now, db, nextId, dirs, sweep, served, faulty, mime>>

\* lines 290-296: DELETE ... AND delete_code = ?
D_Delete(s) ==
    /\ req[s].pc = "d_delete"
    /\ \E storeOk \in Outcomes :
         IF storeOk
         THEN /\ ~CursorOpen
              /\ db' = DeleteRow(db, req[s].path, QueryEscape(req[s].name), req[s].code)
              /\ req' = [req EXCEPT ![s].pc = "d_rmdir"]
              /\ out' = NoResponse
         ELSE /\ out' = [Response("delete", 500, "Failed to delete file record") EXCEPT
                            !.path = req[s].path, !.name = req[s].name,
                            !.code = req[s].code, !.rid = req[s].rid]
              /\ req' = [req EXCEPT ![s] = Idle]
              /\ UNCHANGED db
    /\ UNCHANGED <<now, nextId, dirs, files, sweep, served, faulty, mime>>

\* a 200 response that repeats the delete code of the request
DeleteOkEcho(path, name, code, rid) ==
    [Response("delete", 200, "OK") EXCEPT
        !.path = path, !.name = name, !.code = code, !.rid = rid, !.secret = code]

\* line 303: c.Status(200).SendString("OK\n")
DeleteOk(path, name, code, rid) ==
    [Response("delete", 200, "OK") EXCEPT
        !.path = path, !.name = name, !.code = code, !.rid = rid]

\* lines 298-303: os.Remove(dirPath), best effort, then 200 OK
D_RemoveDir(s) ==
    /\ req[s].pc = "d_rmdir"
    /\ dirs' = RemoveDir(dirs, files, req[s].path)
    /\ out' = DeleteOk(req[s].path, req[s].name, req[s].code, req[s].rid)
    /\ req' = [req EXCEPT ![s] = Idle]
    /\ UNCHANGED <<now, db, nextId, files, sweep, served, faulty, mime>>

\* ----------------------------------------------------- cleanupExpiredFiles
\* lines 307-317 and 370-377: the hourly goroutine opens the cursor over the
\* rows that are expired now
S_Query ==
    /\ sweep.pc = "idle"
    /\ \E storeOk \in Outcomes :
         IF storeOk
         THEN /\ LET rows == ListExpired(db, now)
                 IN  sweep' = [pc |-> IF rows = {} THEN "delete" ELSE "loop",
                               cursor |-> RowsInOrder(rows),
                               listed |-> rows, failed |-> {}]
              /\ out' = NoResponse
         ELSE \* lines 312-314: the run returns its error, which main logs
              /\ sweep' = sweep
              /\ out' = Response("sweep", 1, "Cleanup failed")
    /\ UNCHANGED <<now, db, nextId, dirs, files, req, served, faulty, mime>>

\* lines 317-331: one pass of the loop body: os.Remove(filePath), whose
\* error is only logged, and os.Remove(dirPath).  The two removals are one
\* step: no other file-system call tells the state between them from the
\* state before or after both.
\* a loop that returns at the first os.Remove that fails
NextRecordOrStop(sw, r, removeOk) ==
    IF removeOk
    THEN [sw EXCEPT !.cursor = Tail(@),
                    !.pc = IF Len(sw.cursor) = 1 THEN "delete" ELSE "loop"]
    ELSE SweepIdle

\* lines 324-331: a failed os.Remove is logged and the loop goes on to the
\* next row of the cursor; after the last row comes the grouped DELETE
NextRecord(sw, r, removeOk) ==
    [sw EXCEPT !.cursor = Tail(@),
               !.pc = IF Len(sw.cursor) = 1 THEN "delete" ELSE "loop",
               !.failed = IF removeOk THEN @ ELSE @ \cup {r.id}]

S_Remove ==
    /\ sweep.pc = "loop"
    /\ LET r   == Head(sweep.cursor)
           loc == FilePath(r.path, r.filename)
       IN  \E removeOk \in IF files[loc] = NoFile THEN {TRUE} ELSE Outcomes :
             LET fs == IF removeOk THEN [files EXCEPT ![loc] = NoFile] ELSE files
             IN  /\ files' = fs
                 /\ dirs' = RemoveDir(dirs, fs, r.path)
                 /\ sweep' = NextRecord(sweep, r, removeOk)
    /\ out' = NoResponse
    /\ UNCHANGED <<now, db, nextId, req, served, faulty, mime>>

\* lines 333-338 and 372-375: the grouped DELETE, which evaluates
\* datetime('now') again; its error ends the run and is logged by main
S_Delete ==
    /\ sweep.pc = "delete"
    /\ \E storeOk \in Outcomes :
         /\ db' = IF storeOk THEN DeleteExpired(db, now) ELSE db
         /\ out' = IF storeOk THEN NoResponse
                   ELSE Response("sweep", 1, "Cleanup failed")
    /\ sweep' = SweepIdle
    /\ UNCHANGED <<now, nextId, dirs, files, req, served, faulty, mime>>

\* -------------------------------------------------------------------- time
Tick ==
    /\ now < MaxTime
    /\ now' = now + 1
    /\ out' = NoResponse
    /\ UNCHANGED <<db, nextId, dirs, files, req, sweep, served, faulty, mime>>

\* -------------------------------------------------------------------- Next
Next ==
    \/ \E s \in Slots : U_Start(s)
    \/ \E s \in Slots : U_Write(s)
    \/ \E s \in Slots : U_Insert(s)
    \/ \E s \in Slots : U_Rollback(s)
    \/ \E s \in Slots : F_Start(s)
    \/ \E s \in Slots : F_Stat(s)
    \/ \E s \in Slots : F_Update(s)
    \/ \E s \in Slots : F_Send(s)
    \/ \E s \in Slots : D_Start(s)
    \/ \E s \in Slots : D_Remove(s)
    \/ \E s \in Slots : D_Delete(s)
    \/ \E s \in Slots : D_RemoveDir(s)
    \/ S_Query
    \/ S_Remove
    \/ S_Delete
    \/ Tick

Spec == Init /\ [][Next]_vars

\* the runs in which no SQL statement and no file-system call fails for a
\* reason outside the program
SpecReliable == InitReliable /\ [][Next]_vars

\* lines 174-180 on their own: handleUpload classifies a request with the
\* header, the decoded filename and the non-empty content it was given
Classify ==
    /\ \E declared \in ContentTypes, name \in MimeNames, body \in MimeBodies :
         mime' = [declared |-> declared, name |-> name, body |-> body,
                  type |-> MimeType(declared, name, body)]
    /\ UNCHANGED <<now, db, nextId, dirs, files, req, sweep, out, served, faulty>>

NextMime == Classify

\* the classifications of lines 174-180 over the inputs of ContentTypes,
\* MimeNames and MimeBodies
SpecMime == InitReliable /\ [][NextMime]_vars

\* lines 370-377: the goroutine runs cleanupExpiredFiles in an endless loop,
\* so a run that can start does start and a started run goes on to its end;
\* a store that fails does not fail for ever
SweeperScheduled ==
    /\ SF_vars(S_Query /\ sweep'.pc # "idle")
    /\ WF_vars(S_Remove)
    /\ SF_vars(S_Delete /\ out' = NoResponse)

SpecScheduled == Init /\ [][Next]_vars /\ SweeperScheduled

\* the runs without outside failures in which the sweeper keeps running
SpecReliableScheduled == InitReliable /\ [][Next]_vars /\ SweeperScheduled

\* the runs of a server that starts with two stored files
SpecTwoFiles == InitTwoFiles /\ [][Next]_vars

\* ================================================================== claims
RowsAt(rows, path, filename) ==
    {r \in rows : r.path = path /\ r.filename = filename}

\* C1: in every reachable state the metadata store holds at most one row
\* for any (path, filename) pair, whatever paths the generator hands out
C1_UniqueAddress ==
    \A r1, r2 \in db :
        (r1.path = r2.path /\ r1.filename = r2.filename) => r1 = r2

\* an upload was given the (path, filename) of a live row and its INSERT
\* was refused
C1_Witness ==
    \E s \in Slots :
        /\ req[s].pc = "u_rollback"
        /\ req[s].conflict
        /\ RowsAt(db, req[s].path, req[s].name) # {}

\* C2: an upload whose INSERT meets the uniqueness conflict retries under
\* a fresh path and succeeds; the conflict is never answered with an error
C2_ConflictNotSurfaced ==
    (out.op = "upload" /\ out.conflict) => out.status = 200

\* no request and no sweeper run is between its first and its last step
Quiescent == (\A s \in Slots : req[s].pc = "idle") /\ sweep.pc = "idle"

\* C3: whenever no upload, delete or sweep is in progress, a row exists for
\* (path, filename) if and only if the blob of (path, filename) exists
C3_RecordIffBlob ==
    Quiescent =>
        \A p \in Paths, n \in FileNames :
            (RowsAt(db, p, n) # {}) <=> (files[FilePath(p, n)] # NoFile)

\* file_size identifies the bytes an upload supplied: the persisted file
\* has one byte, every upload of Bodies two
UploadedBody(fileSize) == IF fileSize = 1 THEN <<1>> ELSE <<2, 2>>

\* C4: a fetch that delivers bytes delivers exactly the bytes supplied by
\* the upload that created the row it looked up
C4_RoundTrip ==
    (out.op = "fetch" /\ out.status = 200) => out.bytes = UploadedBody(out.size)

\* C5: a row that is not older than the retention window, and its blob,
\* are removed only by a step of a delete request that carries the row's
\* own delete code; no other step removes either
C5_OnlyOwnCodeRemoves ==
    [][\A r \in db :
         LET loc == FilePath(r.path, r.filename)
         IN  (/\ ~Expired(r, now)
              /\ \/ ~\E q \in db' : q.id = r.id
                 \/ files[loc] # NoFile /\ files'[loc] = NoFile)
             => \E s \in Slots :
                    /\ req[s].pc \in DeletePcs
                    /\ req'[s] # req[s]
                    /\ req[s].path = r.path
                    /\ req[s].name = r.filename
                    /\ req[s].code = r.delete_code]_vars

\* C6: a delete request whose code differs from the delete_code of the row
\* stored at its (path, filename) is answered 403 and changes neither the
\* row nor the blob store
C6_WrongCodeForbidden ==
    [][\A s \in Slots :
         LET accepted == req'[s].pc = "d_remove"
             path == IF accepted THEN req'[s].path ELSE out'.path
             name == IF accepted THEN req'[s].name ELSE out'.name
             code == IF accepted THEN req'[s].code ELSE out'.code
         IN  (/\ req[s].pc = "idle"
              /\ served' = served + 1
              /\ accepted \/ out'.op = "delete"
              /\ \E r \in RowsAt(db, path, name) : r.delete_code # code)
             => /\ out'.op = "delete"
                /\ out'.status = 403
                /\ req'[s] = req[s]
                /\ db' = db
                /\ files' = files
                /\ dirs' = dirs]_vars

\* C6 as amended: such a request, when its SELECT does not fail, is answered
\* 403, or 400 when its code is not valid percent-encoding, and changes
\* neither the row nor the blob store
C6_WrongCodeRefused ==
    [][\A s \in Slots :
         LET accepted == req'[s].pc = "d_remove"
             path == IF accepted THEN req'[s].path ELSE out'.path
             name == IF accepted THEN req'[s].name ELSE out'.name
             code == IF accepted THEN req'[s].code ELSE out'.code
         IN  (/\ req[s].pc = "idle"
              /\ served' = served + 1
              /\ accepted \/ out'.op = "delete"
              /\ \E r \in RowsAt(db, path, name) : r.delete_code # code)
             => /\ out'.op = "delete"
                /\ \/ out'.status = 403
                   \/ out'.status = 400 /\ QueryUnescape(code) = DecodeError
                /\ req'[s] = req[s]
                /\ db' = db
                /\ files' = files
                /\ dirs' = dirs]_vars

\* a delete with a wrong code has just been refused; row and blob are there
C6_Witness ==
    /\ out.op = "delete"
    /\ out.status = 403
    /\ \E r \in RowsAt(db, out.path, out.name) :
           /\ r.delete_code # out.code
           /\ files[FilePath(r.path, r.filename)] # NoFile

\* C7: when a delete with the correct code returns ok, the row it matched
\* is gone and no blob is left at (path, filename), unless an upload has
\* written that location again in the meantime
C7_DeletedIsGone ==
    [][\A s \in Slots :
         (req[s].pc = "d_rmdir" /\ out'.op = "delete" /\ out'.status = 200
             /\ req'[s].pc = "idle")
         => LET here == RowsAt(db', req[s].path, req[s].name)
            IN  /\ \A r \in here : r.id > req[s].rid
                /\ \/ files'[FilePath(req[s].path, req[s].name)] = NoFile
                   \/ here # {}
                   \/ \E u \in Slots :
                          /\ req[u].pc \in {"u_insert", "u_rollback"}
                          /\ req[u].path = req[s].path
                          /\ req[u].name = req[s].name]_vars

C9_SweepSparesYoung ==
    [][(sweep' # sweep)
       => \A r \in db :
              ~Expired(r, now)
              => /\ r \in db'
                 /\ files'[FilePath(r.path, r.filename)]
                        = files[FilePath(r.path, r.filename)]]_vars

\* a run that has removed the blob of an expired row stands before its
\* grouped DELETE while a younger row and its blob are in the stores
C9_Witness ==
    /\ sweep.pc = "delete"
    /\ sweep.listed # {}
    /\ \E r \in db :
           /\ ~Expired(r, now)
           /\ files[FilePath(r.path, r.filename)] # NoFile

\* C10: every fetch that delivers the bytes of the file has added one to
\* the download_count of its row
C10_EachDeliveryCounts ==
    (out.op = "fetch" /\ out.status = 200) => out.counted

\* C10 as amended: a fetch whose UPDATE succeeds adds exactly one to the
\* download_count of the row stored at its (path, filename) at that moment,
\* and no other step changes the download_count of any row
C10_UpdateAddsOne ==
    [][\A r \in db : \A q \in db' :
         q.id = r.id
         => q.download_count = r.download_count +
                IF \E s \in Slots :
                       /\ req[s].pc = "f_update"
                       /\ req'[s].pc = "f_send"
                       /\ req'[s].counted
                       /\ req[s].path = r.path
                       /\ req[s].name = r.filename
                THEN 1 ELSE 0]_vars

\* two fetches of one file have both passed their UPDATE, neither has sent
\* the file yet, and the row counts two
C10_Witness ==
    /\ \A s \in Slots : req[s].pc = "f_send" /\ req[s].counted
    /\ \E r \in db :
           /\ r.download_count = 2
           /\ \A s \in Slots : req[s].path = r.path /\ req[s].name = r.filename

\* C11: no step changes the content of the blob of a row that is in the
\* metadata store: where a row's blob is on disk before and after a step, it
\* holds the same bytes
C11_BlobNeverOverwritten ==
    [][\A r \in db :
         LET loc == FilePath(r.path, r.filename)
         IN  (files[loc] # NoFile /\ files'[loc] # NoFile)
             => files'[loc] = files[loc]]_vars

\* C12: the step of a delete that removes the row from the metadata store
\* finds no blob at the row's location: the blob has been removed before
C12_RowRemovedAfterBlob ==
    [][\A s \in Slots :
         (req[s].pc = "d_delete" /\ req'[s].pc = "d_rmdir" /\ db' # db)
         => files[FilePath(req[s].path, req[s].name)] = NoFile]_vars

\* C13: a fetch that found the row of its address and does not deliver the
\* file, because the blob is missing, is answered 404
C13_MissingBlobNotFound ==
    (out.op = "fetch" /\ out.rid # 0 /\ out.status # 200) => out.status = 404

\* C14: a fetch goes on to the blob only with a row that the metadata store
\* holds for the requested (path, filename) at the moment of its SELECT;
\* when no such row is there it is answered 404, whatever is on disk
C14_ServedOnlyWithRecord ==
    [][\A s \in Slots :
         /\ (req[s].pc = "idle" /\ req'[s].pc = "f_stat")
            => \E r \in db : /\ r.id = req'[s].rid
                             /\ r.path = req'[s].path
                             /\ r.filename = req'[s].name
         /\ (req[s].pc = "idle" /\ req'[s].pc = "idle"
                /\ served' = served + 1 /\ out'.op = "fetch")
            => /\ out'.status = 404
               /\ RowsAt(db, out'.path, out'.name) = {}
               /\ files' = files
         /\ (out'.op = "fetch" /\ out'.status = 200 /\ req[s].pc = "f_send"
                /\ req'[s].pc = "idle")
            => req[s].rid # 0]_vars

\* a fetch of an address that has a blob on disk and no row has just been
\* answered 404
C14_Witness ==
    /\ out.op = "fetch"
    /\ out.status = 404
    /\ out.rid = 0
    /\ out.name \in FileNames
    /\ RowsAt(db, out.path, out.name) = {}
    /\ files[FilePath(out.path, out.name)] # NoFile

\* C15: a delete request whose code is empty is not answered with the 403
\* of a wrong code but with a client input error of its own
C15_EmptyCodeIsInputError ==
    (out.op = "delete" /\ out.status = 403) => out.code # <<>>

\* C16: a delete request is answered 403 only when a row is stored at its
\* (path, filename); where no row is stored the answer is 404
C16_ForbiddenOnlyIfRecord ==
    (out.op = "delete" /\ out.status = 403)
        => RowsAt(db, out.path, out.name) # {}

\* C17: a delete request that is refused because of its code (403, or 400
\* for a code that does not decode) gets the very same answer from the store
\* without the row at the requested (path, filename)
C17_RefusalIndependentOfRecord ==
    [][(served' = served + 1 /\ out'.op = "delete" /\ out'.status \in {400, 403})
       => DeleteAnswer(db \ RowsAt(db, out'.path, out'.name), out'.path,
                       QueryEscape(out'.name), out'.code, TRUE) = out']_vars

\* a delete with a code that is not the row's has just been refused at an
\* address where a row is stored, and the store without that row gives the
\* same answer
C17_Witness ==
    /\ out.op = "delete"
    /\ out.status = 403
    /\ RowsAt(db, out.path, out.name) # {}
    /\ DeleteAnswer(db \ RowsAt(db, out.path, out.name), out.path,
                    QueryEscape(out.name), out.code, TRUE) = out

\* C18: a response carries a delete code only when it is the success
\* response of the upload that inserts the row with that code in the same
\* step, and that response does carry it; no response of a fetch, a delete
\* or a sweeper run carries a delete code
C18_CodeOnlyInUploadSuccess ==
    [][LET inserted == {r \in db' : ~\E q \in db : q.id = r.id}
       IN  /\ out'.secret # <<>>
              => /\ out'.op = "upload"
                 /\ out'.status = 200
                 /\ \E r \in inserted : r.id = out'.rid /\ r.delete_code = out'.secret
           /\ \A r \in inserted : out'.secret = r.delete_code]_vars

\* an upload has just succeeded and its response carries the code of the
\* row it inserted; the row of the persisted file is in the store as well
C18_Witness ==
    /\ out.op = "upload"
    /\ out.status = 200
    /\ \E r \in db : r.id = out.rid /\ r.delete_code = out.secret /\ out.secret # <<>>
    /\ Persisted \in db

\* C19: an upload that is answered 400 (empty content, or no filename) has
\* changed neither the metadata store nor the blob store nor the set of
\* per-path directories
C19_RejectedUploadNoIO ==
    [][(out'.op = "upload" /\ out'.status = 400)
       => db' = db /\ files' = files /\ dirs' = dirs]_vars

\* C20: the step of an upload that follows a failed INSERT leaves no blob at
\* the location the upload wrote, and answers 500
C20_RollbackRemovesBlob ==
    [][\A s \in Slots :
         (req[s].pc = "u_rollback" /\ req'[s].pc = "idle")
         => /\ out'.op = "upload"
            /\ out'.status = 500
            /\ files'[FilePath(req[s].path, req[s].name)] = NoFile]_vars

\* C20 as amended: that step answers 500 and leaves no blob at the location
\* unless its os.Remove failed
C20_RollbackAttemptsRemoval ==
    [][\A s \in Slots :
         (req[s].pc = "u_rollback" /\ req'[s].pc = "idle")
         => /\ out'.op = "upload"
            /\ out'.status = 500
            /\ \/ out'.leftover
               \/ files'[FilePath(req[s].path, req[s].name)] = NoFile]_vars

\* an upload whose INSERT failed for a reason other than the uniqueness
\* conflict has been answered 500; its blob is gone and no row is there
C20_Witness ==
    /\ out.op = "upload"
    /\ out.status = 500
    /\ out.text = "Failed to save file information"
    /\ ~out.conflict
    /\ ~out.leftover
    /\ files[FilePath(out.path, out.name)] = NoFile
    /\ RowsAt(db, out.path, out.name) = {}

\* ------------------------------------------------------------------ C21
\* the ids a record can carry within the request budget
RowIds == 1..(MaxRequests + 1)

\* C21: with the sweeper scheduled, a record that is older than the
\* retention window is eventually absent from the metadata store, whether
\* or not its blob exists and whether or not an earlier run failed
C21_ExpiredEventuallyRemoved ==
    \A i \in RowIds :
        (\E r \in db : r.id = i /\ Expired(r, now))
            ~> (~\E r \in db : r.id = i)

\* an expired record is in the store, its blob is already missing, and a
\* sweeper run has just failed
C21_Witness ==
    /\ \E r \in db : /\ Expired(r, now)
                     /\ files[FilePath(r.path, r.filename)] = NoFile
    /\ out = Response("sweep", 1, "Cleanup failed")
    /\ sweep.pc = "idle"

\* ------------------------------------------------------------------ C22
\* C22: no two live records share the same path value
C22_PathPerRecord ==
    \A r \in db : \A q \in db : r.path = q.path => r = q

\* ------------------------------------------------------------------ C23
\* the 62 characters 0-9, a-z, A-Z
C23_Alphabet ==
    {"0", "1", "2", "3", "4", "5", "6", "7", "8", "9"}
    \cup {"a", "b", "c", "d", "e", "f", "g", "h", "i", "j", "k", "l", "m",
          "n", "o", "p", "q", "r", "s", "t", "u", "v", "w", "x", "y", "z"}
    \cup {"A", "B", "C", "D", "E", "F", "G", "H", "I", "J", "K", "L", "M",
          "N", "O", "P", "Q", "R", "S", "T", "U", "V", "W", "X", "Y", "Z"}

\* C23: the path of a successful upload's response has exactly 4 characters
\* and its deletion code exactly 8, each one of the 62 characters 0-9, a-z,
\* A-Z
C23_PathAndCodeShape ==
    (out.op = "upload" /\ out.status = 200) =>
        /\ Cardinality(C23_Alphabet) = 62
        /\ Len(out.path) = 4
        /\ Len(out.secret) = 8
        /\ \A i \in 1..Len(out.path) : out.path[i] \in C23_Alphabet
        /\ \A i \in 1..Len(out.secret) : out.secret[i] \in C23_Alphabet

\* an upload has just succeeded with the greatest draw for its path
C23_Witness ==
    /\ out.op = "upload" /\ out.status = 200
    /\ out.path = generateRandomPath(DrawHigh)
    /\ out.secret \in Codes

\* ------------------------------------------------------------------ C24
\* C24: no step lowers the download_count of a row that is in the metadata
\* store before and after the step
C24_DownloadCountMonotone ==
    [][\A r \in db : \A q \in db' :
         q.id = r.id => q.download_count >= r.download_count]_vars

\* a row has been counted and a sweeper run that spared it is about to
\* issue its grouped DELETE
C24_Witness ==
    /\ sweep.pc = "delete"
    /\ \E r \in db : r.download_count >= 1 /\ ~Expired(r, now)

\* ------------------------------------------------------------------ C25
\* C25: every row the grouped DELETE of a sweeper run removes is a row the
\* run listed and whose blob is no longer on disk
C25_SweepRemovesOnlyUnlinked ==
    [][(sweep.pc = "delete" /\ sweep'.pc = "idle") =>
          \A r \in db : r \notin db' =>
              /\ r \in sweep.listed
              /\ files[FilePath(r.path, r.filename)] = NoFile]_vars

\* ------------------------------------------------------------------ C26
\* C26: the rollback step of an upload that answers with an error removes
\* no row and leaves the blob of every row in the metadata store as it was
C26_FailedUploadFrame ==
    [][(\E s \in Slots : /\ req[s].pc = "u_rollback"
                         /\ out'.op = "upload" /\ out'.status = 500) =>
          /\ db' = db
          /\ \A r \in db : files'[FilePath(r.path, r.filename)]
                               = files[FilePath(r.path, r.filename)]]_vars

\* ------------------------------------------------------------------ C27
\* C27: in the step in which an upload answers 200, the row it inserted is
\* in the metadata store and the blob at its location holds the bytes of
\* that upload
C27_SuccessMeansStored ==
    [][\A s \in Slots :
          (req[s].pc = "u_insert" /\ req'[s].pc = "idle") =>
              /\ \E r \in db' : /\ r.id = out'.rid
                                /\ r.path = req[s].path
                                /\ r.filename = req[s].name
              /\ files'[FilePath(req[s].path, req[s].name)] = req[s].body]_vars

\* ------------------------------------------------------------------ C28
\* the row r, its blob and the directory of its blob are after the step
\* what they were before it
SiblingIntact(r) ==
    LET loc == FilePath(r.path, r.filename)
    IN  /\ r \in db'
        /\ files'[loc] = files[loc]
        /\ (files[loc] # NoFile => r.path \in dirs')

\* C28: a step of a delete, and a step of the sweeper's loop, leaves every
\* other row of the same path with a different filename, and that row's
\* blob and directory, unchanged; the sweeper's grouped DELETE keeps every
\* row that is not past the retention window
C28_SiblingsIntact ==
    [][/\ \A s \in Slots :
            (req[s].pc \in DeletePcs /\ req'[s] # req[s]) =>
                \A r \in db :
                    (r.path = req[s].path /\ r.filename # req[s].name)
                        => SiblingIntact(r)
       /\ (sweep.pc = "loop" /\ sweep' # sweep) =>
              \A r \in db :
                  (/\ r.path = Head(sweep.cursor).path
                   /\ r.filename # Head(sweep.cursor).filename)
                      => SiblingIntact(r)
       /\ (sweep.pc = "delete" /\ sweep' # sweep) =>
              \A r \in db : ~Expired(r, now) => SiblingIntact(r)]_vars

\* a delete has answered 200, its file is gone, and another file of the
\* same path is still stored with its blob
C28_Witness ==
    /\ out.op = "delete" /\ out.status = 200
    /\ files[FilePath(out.path, out.name)] = NoFile
    /\ \E r \in db : /\ r.path = out.path
                     /\ r.filename # out.name
                     /\ files[FilePath(r.path, r.filename)] # NoFile
                     /\ r.path \in dirs

\* ------------------------------------------------------------------ C29
\* C29: the directory an upload has created is there for as long as the
\* upload has not yet written its blob
C29_UploadDirKept ==
    \A s \in Slots : req[s].pc = "u_write" => req[s].path \in dirs

\* ------------------------------------------------------------------ C30
\* C30: a fetch that ends without delivering the file's bytes has
\* incremented no download_count
C30_CountOnlyOnDelivery ==
    [][(out'.op = "fetch" /\ out'.status # 200) => ~out'.counted]_vars

\* ------------------------------------------------------------------ C31
\* C31: a sweeper run opens its cursor on every listed row, and each pass
\* of its loop attempts the blob of the cursor's first row and goes on to
\* the rest of the cursor whether or not the removal failed; the grouped
\* DELETE comes only after the last row
C31_SweepGoesOn ==
    [][/\ (sweep.pc = "idle" /\ sweep'.pc # "idle") =>
              {sweep'.cursor[i] : i \in 1..Len(sweep'.cursor)} = sweep'.listed
       /\ (sweep.pc = "loop" /\ sweep' # sweep) =>
              LET r == Head(sweep.cursor)
              IN  /\ \/ files'[FilePath(r.path, r.filename)] = NoFile
                     \/ r.id \in sweep'.failed
                  /\ sweep'.cursor = Tail(sweep.cursor)
                  /\ sweep'.listed = sweep.listed
                  /\ sweep'.pc = IF Tail(sweep.cursor) = <<>>
                                 THEN "delete" ELSE "loop"]_vars

\* a run has listed two rows, the removal of the first one's blob failed,
\* and the blob of the second is gone
C31_Witness ==
    /\ sweep.pc = "delete"
    /\ Cardinality(sweep.listed) = 2
    /\ \E r \in sweep.listed, q \in sweep.listed :
           /\ r.id < q.id
           /\ r.id \in sweep.failed
           /\ files[FilePath(r.path, r.filename)] # NoFile
           /\ q.id \notin sweep.failed
           /\ files[FilePath(q.path, q.filename)] = NoFile

\* ------------------------------------------------------------------ C32
\* C32: a fetch that has passed its SELECT and os.Stat ends, when the row
\* and the blob exist at that moment, by delivering the blob's bytes with
\* status 200, whether or not its UPDATE of download_count succeeded
C32_UpdateFailureStillDelivers ==
    [][\A s \in Slots :
          (req[s].pc \in {"f_update", "f_send"} /\ req'[s].pc = "idle") =>
              LET loc == FilePath(req[s].path, req[s].name)
              IN  (/\ SelectByAddress(db, req[s].path, QueryEscape(req[s].name)) # {}
                   /\ files[loc] # NoFile)
                      => /\ out'.op = "fetch"
                         /\ out'.status = 200
                         /\ out'.bytes = files[loc]]_vars

\* a fetch has delivered the bytes of a row that is still in the store and
\* was never counted: the fetch's UPDATE failed
C32_Witness ==
    /\ out.op = "fetch" /\ out.status = 200 /\ ~out.counted
    /\ out.bytes # <<>>
    /\ \E r \in db : r.id = out.rid /\ r.download_count = 0

\* ------------------------------------------------------------------ C33
\* how far an upload has come: handleUpload has no loop, so every step it
\* takes moves it forward
UploadRank(pc) ==
    CASE pc = "u_write" -> 1
      [] pc = "u_insert" -> 2
      [] pc = "u_rollback" -> 3
      [] OTHER -> 0

\* C33: an upload generates one path and makes one attempt: each of its
\* steps either moves it forward under the same path or ends it, with
\* status 200 after the INSERT or with an error; an upload whose INSERT met
\* a uniqueness conflict ends with the error of the failed INSERT
C33_UploadTerminates ==
    [][\A s \in Slots :
          (UploadRank(req[s].pc) > 0 /\ req'[s] # req[s]) =>
              \/ /\ UploadRank(req'[s].pc) > UploadRank(req[s].pc)
                 /\ req'[s].path = req[s].path
                 /\ req'[s].name = req[s].name
              \/ /\ req'[s].pc = "idle"
                 /\ out'.op = "upload"
                 /\ out'.status \in {200, 500}
                 /\ out'.status = 200 => req[s].pc = "u_insert"
                 /\ req[s].conflict =>
                        /\ out'.status = 500
                        /\ out'.text = "Failed to save file information"]_vars

\* an upload whose one attempt met a uniqueness conflict has ended with
\* the error of the failed INSERT
C33_Witness ==
    /\ out.op = "upload"
    /\ out.status = 500
    /\ out.text = "Failed to save file information"
    /\ out.conflict
    /\ \A s \in Slots : req[s].pc = "idle"

\* ------------------------------------------------------------------ C37
\* C37: the mime type recorded for an upload is the declared content type
\* when one is given, otherwise the type of the filename's extension when
\* that type is not empty, otherwise the type sniffed from the content
C37_MimePrecedence ==
    mime # NoMime =>
        /\ mime.declared # "" => mime.type = mime.declared
        /\ (mime.declared = "" /\ TypeByExtension(Ext(mime.name)) # "")
               => mime.type = TypeByExtension(Ext(mime.name))
        /\ (mime.declared = "" /\ TypeByExtension(Ext(mime.name)) = "")
               => mime.type = DetectContentType(mime.body)

\* no type was declared, the extension has a type and the content would
\* sniff as another one: the extension's type is recorded
C37_Witness ==
    /\ mime.declared = ""
    /\ mime.name = <<"a", ".txt">>
    /\ mime.body = <<37, 80, 68, 70, 45>>
    /\ mime.type = "text/plain; charset=utf-8"
    /\ DetectContentType(mime.body) = "application/pdf"

\* ------------------------------------------------------------------ C34
\* C34: a row that is in the metadata store before and after a step keeps
\* its path, filename, delete code, upload time, file size and mime type;
\* its download_count changes only in the UPDATE step of a fetch
C34_OnlyCountChanges ==
    [][\A r \in db : \A q \in db' :
          q.id = r.id =>
              /\ [q EXCEPT !.download_count = 0] = [r EXCEPT !.download_count = 0]
              /\ q.download_count # r.download_count =>
                     \E s \in Slots : /\ req[s].pc = "f_update"
                                      /\ req'[s].pc = "f_send"]_vars

\* the stored file has been fetched once, the fetch has delivered it, and
\* its row differs from the row as created only in download_count
C34_Witness ==
    /\ out.op = "fetch" /\ out.status = 200 /\ out.counted
    /\ [Persisted EXCEPT !.download_count = 1] \in db

\* ------------------------------------------------------------------ C35
\* C35: a delete does not answer 200 for a record for which the response
\* just before it was already the 200 of another delete
C35_OneDeleteSucceeds ==
    [][~(/\ out.op = "delete" /\ out.status = 200
         /\ out'.op = "delete" /\ out'.status = 200
         /\ out'.rid = out.rid
         /\ \E s \in Slots : req[s].pc = "d_rmdir" /\ req'[s].pc = "idle")]_vars

\* ------------------------------------------------------------------ C36
\* a blob is on disk at loc, no row of the metadata store names it, and no
\* upload that wrote it is still on its way to its INSERT or its rollback
Orphan(loc) ==
    /\ files[loc] # NoFile
    /\ RowsAt(db, loc[1], loc[2]) = {}
    /\ \A s \in Slots :
           ~(/\ req[s].pc \in {"u_insert", "u_rollback"}
             /\ FilePath(req[s].path, req[s].name) = loc)

\* C36: with the sweeper scheduled, a blob that has no metadata record is
\* eventually no longer an orphan on disk: it is removed (or, at the
\* latest, a later upload to its address has given it a record)
C36_OrphanEventuallyRemoved ==
    \A loc \in Locations :
        Orphan(loc) ~> (files[loc] = NoFile \/ RowsAt(db, loc[1], loc[2]) # {})

====
